---- MODULE Spec2Model ----
(***************************************************************************)
(* A model of the two googletest cases of the repository:                  *)
(*   code/001_memory_sizes.cpp   TEST(MemoryTests, TypeSizeAsserts)        *)
(*   code/002_explicit_ctr.cpp   TEST(STLContainer, ExplicitCtrTests)      *)
(* One action per statement; pc[t] is the source line of the statement     *)
(* test t executes next.                                                   *)
(***************************************************************************)
EXTENDS Integers, Sequences, FiniteSets, TLC

VARIABLES
    sizeofT,    \* sizeofT[T]: the value of sizeof(T) in this build
    selected,   \* the test cases this run of the suite executes
    pending,    \* selected test cases that have not started yet
    cur,        \* the test case that is running, or "none"
    finished,   \* the run of the suite has ended
    pc,         \* pc[t]: line of the next statement of test t
    executed,   \* executed[t]: lines of the statements test t has executed, in order
    result,     \* result[t]: "none" until t ends, then "pass" or "fail"
    failures,   \* failures[t]: the reported mismatches, <<line, expected, actual>>
    v,          \* the elements of std::vector<Widget> v
    v_inScope   \* v has been constructed and not yet destroyed

vars == <<sizeofT, selected, pending, cur, finished, pc, executed, result, failures,
          v, v_inScope>>

----------------------------------------------------------------------------
(* Bounds *)

\* An int field that no constructor assigned holds one of 0..MaxGarbage.
MaxGarbage == 2

Garbage == 0..MaxGarbage

----------------------------------------------------------------------------
(* The two test cases *)

TypeSizeAsserts == "TypeSizeAsserts"

ExplicitCtrTests == "ExplicitCtrTests"

Tests == {TypeSizeAsserts, ExplicitCtrTests}

\* Mutant of Stmts: the two-argument emplace_back of line 17 is missing.
Stmts_noLine17 ==
    [t \in Tests |->
        IF t = TypeSizeAsserts THEN <<4, 5, 6, 7>>
        ELSE <<14, 15, 16, 23, 25>>]

\* The statements of each test body, by source line, in program order.
\* Line 20 of 002_explicit_ctr.cpp is a comment and is no statement.
Stmts ==
    [t \in Tests |->
        IF t = TypeSizeAsserts THEN <<4, 5, 6, 7>>
        ELSE <<14, 15, 16, 17, 23, 25>>]

\* The line of the TEST(...) header: where pc[t] is before t starts.
EntryLine ==
    [t \in Tests |-> IF t = TypeSizeAsserts THEN 3 ELSE 13]

\* The line of the closing brace: where pc[t] is when every statement passed.
ExitLine ==
    [t \in Tests |-> IF t = TypeSizeAsserts THEN 8 ELSE 26]

----------------------------------------------------------------------------
(* 001_memory_sizes.cpp: the widths *)

Types == {"char", "int", "long", "double"}

\* Mutant of Expected: line 6 written as ASSERT_EQ(sizeof(long), 4L).
Expected_long4 ==
    [T \in Types |->
        CASE T = "char" -> 1
          [] T = "int" -> 4
          [] T = "long" -> 4
          [] T = "double" -> 8]

\* The second operand of each ASSERT_EQ of TypeSizeAsserts.
Expected ==
    [T \in Types |->
        CASE T = "char" -> 1
          [] T = "int" -> 4
          [] T = "long" -> 8
          [] T = "double" -> 8]

\* The type whose width the ASSERT_EQ of a line checks.
TypeAt ==
    [l \in {4, 5, 6, 7} |->
        CASE l = 4 -> "char"
          [] l = 5 -> "int"
          [] l = 6 -> "long"
          [] l = 7 -> "double"]

\* sizeof is implementation-defined: sizeof(char) is 1 by definition, int has at
\* least 16 bits, long at least 32 and is no narrower than int, double is an
\* IEEE single or double.  LP64 is <<1, 4, 8, 8>>, LLP64 and ILP32 <<1, 4, 4, 8>>.
DataModels ==
    {f \in [Types -> {1, 2, 4, 8}] :
        /\ f["char"] = 1
        /\ f["int"] \in {2, 4, 8}
        /\ f["long"] \in {4, 8}
        /\ f["int"] <= f["long"]
        /\ f["double"] \in {4, 8}}

----------------------------------------------------------------------------
(* 002_explicit_ctr.cpp: Widget and the vector *)

\* Mutant of Widget1: the one-argument constructor written as i_(i), j_(0).
Widget1_zeroJ(i, g) == [i_ |-> i, j_ |-> 0, j_set |-> TRUE]

\* A Widget in memory: the two int fields, and for j_ whether a constructor
\* assigned it (j_set); the bits of an unassigned j_ are arbitrary.
\* Widget(int i) : i_(i) {}  leaves j_ unassigned; g is what its storage holds.
Widget1(i, g) == [i_ |-> i, j_ |-> g, j_set |-> FALSE]

\* explicit Widget(int i, int j) : i_(i), j_(j) {}
Widget2(i, j) == [i_ |-> i, j_ |-> j, j_set |-> TRUE]

\* Mutant of Copy: a copy constructor that copies i_ and forgets j_.
Copy_iOnly(w, g) == [i_ |-> w.i_, j_ |-> g, j_set |-> FALSE]

\* The implicit copy/move constructor: memberwise.  Copying a j_ that was never
\* assigned reads an indeterminate value: the copy's j_ holds any value g.
Copy(w, g) ==
    [i_ |-> w.i_, j_ |-> IF w.j_set THEN w.j_ ELSE g, j_set |-> w.j_set]

\* Growing the vector may move the stored elements to new storage, copying each;
\* gs[k] is what the copy of element k holds in a field that was never assigned.
Relocate(s, gs) == [k \in 1..Len(s) |-> Copy(s[k], gs[k])]

\* v.emplace_back(args...): the new element is constructed in place from args.
emplace_back(s, w, gs) == Append(Relocate(s, gs), w)

\* Mutant of push_back: the element is built and dropped, v does not grow.
push_back_noGrow(s, x, gs, g) == Relocate(s, gs)

\* v.push_back(x): x is a Widget (converted from the argument where needed),
\* and the new element is copy/move-constructed from it.
push_back(s, x, gs, g) == Append(Relocate(s, gs), Copy(x, g))

----------------------------------------------------------------------------
(* googletest *)

\* A test body runs statement by statement: after line l comes the next entry
\* of Stmts[t], and after the last one the closing brace.
NextLine(t, l) ==
    LET later == {k \in 1..Len(Stmts[t]) : Stmts[t][k] > l}
    IN  IF later = {} THEN ExitLine[t]
        ELSE Stmts[t][CHOOSE k \in later : \A m \in later : k <= m]

\* Leaving the body of ExplicitCtrTests destroys v; TypeSizeAsserts has no locals.
LeaveScope(t) ==
    IF t = ExplicitCtrTests
    THEN v' = <<>> /\ v_inScope' = FALSE
    ELSE UNCHANGED <<v, v_inScope>>

\* Mutant of ASSERT_EQ: a mismatch aborts the process, as assert() would.
ASSERT_EQ_abort(t, l, actual, expected) ==
    /\ executed' = [executed EXCEPT ![t] = Append(@, l)]
    /\ IF actual = expected
       THEN /\ pc' = [pc EXCEPT ![t] = NextLine(t, l)]
            /\ UNCHANGED <<result, failures, cur, finished, v, v_inScope>>
       ELSE /\ failures' = [failures EXCEPT ![t] = Append(@, <<l, expected, actual>>)]
            /\ result' = [result EXCEPT ![t] = "fail"]
            /\ cur' = "none"
            /\ finished' = TRUE
            /\ LeaveScope(t)
            /\ UNCHANGED pc
    /\ UNCHANGED <<sizeofT, selected, pending>>

\* Mutant of ASSERT_EQ: the non-fatal EXPECT_EQ, which records the mismatch and
\* goes on to the next statement.
ASSERT_EQ_nonfatal(t, l, actual, expected) ==
    /\ executed' = [executed EXCEPT ![t] = Append(@, l)]
    /\ pc' = [pc EXCEPT ![t] = NextLine(t, l)]
    /\ failures' = IF actual = expected THEN failures
                   ELSE [failures EXCEPT ![t] = Append(@, <<l, expected, actual>>)]
    /\ UNCHANGED <<result, cur, v, v_inScope>>
    /\ UNCHANGED <<sizeofT, selected, pending, finished>>

\* ASSERT_EQ(actual, expected) at line l of test t: on a mismatch it records a
\* fatal failure with both values and returns from the test body; otherwise
\* control goes on to the next statement.
ASSERT_EQ(t, l, actual, expected) ==
    /\ executed' = [executed EXCEPT ![t] = Append(@, l)]
    /\ IF actual = expected
       THEN /\ pc' = [pc EXCEPT ![t] = NextLine(t, l)]
            /\ UNCHANGED <<result, failures, cur, v, v_inScope>>
       ELSE /\ failures' = [failures EXCEPT ![t] = Append(@, <<l, expected, actual>>)]
            /\ result' = [result EXCEPT ![t] = "fail"]
            /\ cur' = "none"
            /\ LeaveScope(t)
            /\ UNCHANGED pc
    /\ UNCHANGED <<sizeofT, selected, pending, finished>>

\* Mutant of StartTest: the started test stays pending, so it is run again.
StartTest_rerun(t) ==
    /\ ~finished
    /\ cur = "none"
    /\ t \in pending
    /\ cur' = t
    /\ pc' = [pc EXCEPT ![t] = NextLine(t, EntryLine[t])]
    /\ UNCHANGED <<sizeofT, selected, pending, finished, executed, result, failures,
                   v, v_inScope>>

\* The runner starts a selected test that has not run; the order is the
\* registration order of the translation units, or shuffled.
StartTest(t) ==
    /\ ~finished
    /\ cur = "none"
    /\ t \in pending
    /\ pending' = pending \ {t}
    /\ cur' = t
    /\ pc' = [pc EXCEPT ![t] = NextLine(t, EntryLine[t])]
    /\ UNCHANGED <<sizeofT, selected, finished, executed, result, failures, v, v_inScope>>

\* Mutant of EndTest: the verdict reads the failures of the whole run, not of t.
EndTest_anyFailure(t) ==
    /\ cur = t
    /\ pc[t] = ExitLine[t]
    /\ result' = [result EXCEPT ![t] =
                    IF \A u \in Tests : failures[u] = <<>> THEN "pass" ELSE "fail"]
    /\ cur' = "none"
    /\ LeaveScope(t)
    /\ UNCHANGED <<sizeofT, selected, pending, finished, pc, executed, failures>>

\* Control reaches the closing brace: the test ends with no fatal failure.
EndTest(t) ==
    /\ cur = t
    /\ pc[t] = ExitLine[t]
    /\ result' = [result EXCEPT ![t] = IF failures[t] = <<>> THEN "pass" ELSE "fail"]
    /\ cur' = "none"
    /\ LeaveScope(t)
    /\ UNCHANGED <<sizeofT, selected, pending, finished, pc, executed, failures>>

\* Every selected test has run: the run of the suite ends.
Finish ==
    /\ ~finished
    /\ cur = "none"
    /\ pending = {}
    /\ finished' = TRUE
    /\ UNCHANGED <<sizeofT, selected, pending, cur, pc, executed, result, failures,
                   v, v_inScope>>

----------------------------------------------------------------------------
(* TEST(MemoryTests, TypeSizeAsserts) *)

At(t, l) == cur = t /\ pc[t] = l

\* ASSERT_EQ(sizeof(char), 1L);
Line4 == At(TypeSizeAsserts, 4) /\ ASSERT_EQ(TypeSizeAsserts, 4, sizeofT["char"], Expected["char"])

\* ASSERT_EQ(sizeof(int), 4L);
Line5 == At(TypeSizeAsserts, 5) /\ ASSERT_EQ(TypeSizeAsserts, 5, sizeofT["int"], Expected["int"])

\* ASSERT_EQ(sizeof(long), 8L);
Line6 == At(TypeSizeAsserts, 6) /\ ASSERT_EQ(TypeSizeAsserts, 6, sizeofT["long"], Expected["long"])

\* ASSERT_EQ(sizeof(double), 8L);
Line7 == At(TypeSizeAsserts, 7) /\ ASSERT_EQ(TypeSizeAsserts, 7, sizeofT["double"], Expected["double"])

----------------------------------------------------------------------------
(* TEST(STLContainer, ExplicitCtrTests) *)

\* A statement of ExplicitCtrTests that is no assertion: it runs and control
\* goes on to the next statement.
Step(l) ==
    /\ At(ExplicitCtrTests, l)
    /\ executed' = [executed EXCEPT ![ExplicitCtrTests] = Append(@, l)]
    /\ pc' = [pc EXCEPT ![ExplicitCtrTests] = NextLine(ExplicitCtrTests, l)]
    /\ UNCHANGED <<sizeofT, selected, pending, cur, finished, result, failures>>

\* What the copies made by one growth of v hold in never-assigned fields.
Fill == [1..Len(v) -> Garbage]

\* std::vector<Widget> v;
Line14 ==
    /\ Step(14)
    /\ v' = <<>>
    /\ v_inScope' = TRUE

\* v.emplace_back(1);
Line15 ==
    /\ Step(15)
    /\ \E gs \in Fill, g \in Garbage : v' = emplace_back(v, Widget1(1, g), gs)
    /\ UNCHANGED v_inScope

\* v.push_back(1);   the argument converts through Widget(int)
Line16 ==
    /\ Step(16)
    /\ \E gs \in Fill, g \in Garbage, h \in Garbage :
          v' = push_back(v, Widget1(1, g), gs, h)
    /\ UNCHANGED v_inScope

\* v.emplace_back(1,2);
Line17 ==
    /\ Step(17)
    /\ \E gs \in Fill : v' = emplace_back(v, Widget2(1, 2), gs)
    /\ UNCHANGED v_inScope

\* v.push_back(Widget(1,2));
Line23 ==
    /\ Step(23)
    /\ \E gs \in Fill, h \in Garbage : v' = push_back(v, Widget2(1, 2), gs, h)
    /\ UNCHANGED v_inScope

\* ASSERT_EQ(v.size(), 4);
Line25 == At(ExplicitCtrTests, 25) /\ ASSERT_EQ(ExplicitCtrTests, 25, Len(v), 4)

----------------------------------------------------------------------------
(* The specification *)

Init ==
    /\ sizeofT \in DataModels
    /\ selected \in SUBSET Tests
    /\ pending = selected
    /\ cur = "none"
    /\ finished = FALSE
    /\ pc = [t \in Tests |-> EntryLine[t]]
    /\ executed = [t \in Tests |-> <<>>]
    /\ result = [t \in Tests |-> "none"]
    /\ failures = [t \in Tests |-> <<>>]
    /\ v = <<>>
    /\ v_inScope = FALSE

Start_TypeSizeAsserts == StartTest(TypeSizeAsserts)

Start_ExplicitCtrTests == StartTest(ExplicitCtrTests)

End_TypeSizeAsserts == EndTest(TypeSizeAsserts)

End_ExplicitCtrTests == EndTest(ExplicitCtrTests)

Next ==
    \/ Start_TypeSizeAsserts
    \/ Line4
    \/ Line5
    \/ Line6
    \/ Line7
    \/ End_TypeSizeAsserts
    \/ Start_ExplicitCtrTests
    \/ Line14
    \/ Line15
    \/ Line16
    \/ Line17
    \/ Line23
    \/ Line25
    \/ End_ExplicitCtrTests
    \/ Finish

Spec == Init /\ [][Next]_vars

\* Execution is single-threaded and synchronous: a step that can be taken is taken.
FairSpec == Spec /\ WF_vars(Next)

----------------------------------------------------------------------------
(* Properties *)

T1 == TypeSizeAsserts

T2 == ExplicitCtrTests

Range(s) == {s[k] : k \in 1..Len(s)}

IsPrefix(s, r) == Len(s) <= Len(r) /\ \A k \in 1..Len(s) : s[k] = r[k]

\* The widths the test expects, as numbers: char 1, int 4, long 8, double 8.
WidthsAsExpected ==
    /\ sizeofT["char"] = 1
    /\ sizeofT["int"] = 4
    /\ sizeofT["long"] = 8
    /\ sizeofT["double"] = 8

\* All that test t owns: its control state, its verdict, and for
\* ExplicitCtrTests the vector.
TestState(t) ==
    IF t = ExplicitCtrTests
    THEN <<pc[t], executed[t], result[t], failures[t], v, v_inScope>>
    ELSE <<pc[t], executed[t], result[t], failures[t], <<>>, FALSE>>

InsertLines == {15, 16, 17, 23}

\* C1: in ExplicitCtrTests the four insertions of lines 15, 16, 17 and 23 run in
\* that order from an empty vector, the vector then holds exactly 4 elements,
\* and the ASSERT_EQ(v.size(), 4) of line 25 passes: the test never fails.
C1_SizeIsFour ==
    /\ At(T2, 25) =>
          /\ executed[T2] = <<14, 15, 16, 17, 23>>
          /\ v_inScope
          /\ Len(v) = 4
    /\ 25 \in Range(executed[T2]) => pc[T2] = 26 /\ failures[T2] = <<>>
    /\ result[T2] # "fail"

C1_Witness == result[T2] = "pass" /\ executed[T2] = <<14, 15, 16, 17, 23, 25>>

C3_NoAbort ==
    finished =>
        \A t \in Tests :
            IF t \in selected
            THEN result[t] \in {"pass", "fail"} /\ executed[t] # <<>>
            ELSE result[t] = "none" /\ executed[t] = <<>>

\* TypeSizeAsserts has failed and ExplicitCtrTests runs after it, to its end.
C3_Witness == result[T1] = "fail" /\ At(T2, 25) /\ Len(v) = 4

\* C5: the two test cases are independent: a step changes the state of a test
\* only when that test is the one running, and the verdict of each test is a
\* function of the build alone, whether the other test ran before it, runs
\* after it, or is not run at all.
C5_Independent ==
    /\ [][\A t \in Tests :
            TestState(t)' # TestState(t) => (cur = t \/ cur' = t)]_vars
    /\ [][cur # "none" => cur' \in {cur, "none"}]_vars
    /\ [](result[T2] \in {"none", "pass"})
    /\ [](result[T1] \in {"none", IF WidthsAsExpected THEN "pass" ELSE "fail"})

\* Both ran, one failed, the other passed.
C5_Witness ==
    finished /\ selected = Tests /\ result[T1] = "fail" /\ result[T2] = "pass"

\* The size v has when control is at a line of ExplicitCtrTests.
SizeAt(l) ==
    CASE l = 15 -> 0
      [] l = 16 -> 1
      [] l = 17 -> 2
      [] l = 23 -> 3
      [] l = 25 -> 4
      [] l = 26 -> 4

\* C6: in ExplicitCtrTests the size of v is 0, 1, 2, 3, 4 at lines 15, 16, 17,
\* 23, 25: each of the four insertions raises it by exactly one, no other step
\* changes it, and while v lives its size never decreases.
C6_SizeSequence ==
    /\ [](v_inScope => Len(v) = SizeAt(pc[T2]))
    /\ [][(v_inScope /\ v_inScope') =>
            Len(v') = Len(v) + (IF pc[T2] \in InsertLines /\ pc'[T2] # pc[T2]
                                THEN 1 ELSE 0)]_vars

C6_Witness == At(T2, 25) /\ v_inScope /\ Len(v) = 4

\* C7 as stated: when TypeSizeAsserts has ended, the width of each of the four
\* types has been checked and every mismatch has been reported, whatever the
\* outcome of the assertions before it.
C7_Original ==
    result[T1] # "none" =>
        \A l \in {4, 5, 6, 7} :
            /\ l \in Range(executed[T1])
            /\ sizeofT[TypeAt[l]] # Expected[TypeAt[l]] =>
                  \E k \in 1..Len(failures[T1]) : failures[T1][k][1] = l

\* The assertions of TypeSizeAsserts before line l all hold in this build.
PassedBefore(l) ==
    \A m \in {4, 5, 6, 7} : m < l => sizeofT[TypeAt[m]] = Expected[TypeAt[m]]

\* C7, amended: the assertions are fatal.  When TypeSizeAsserts has ended, the
\* width of a type has been checked exactly when the assertions on all types
\* before it passed; the first mismatch is reported for its type with the
\* expected and the actual width and ends the test, so no later type is checked
\* and at most one mismatch is reported.
C7_FirstMismatchEnds ==
    result[T1] # "none" =>
        /\ \A l \in {4, 5, 6, 7} :
              /\ l \in Range(executed[T1]) <=> PassedBefore(l)
              /\ <<l, Expected[TypeAt[l]], sizeofT[TypeAt[l]]>> \in Range(failures[T1])
                    <=> (PassedBefore(l) /\ sizeofT[TypeAt[l]] # Expected[TypeAt[l]])
        /\ Len(failures[T1]) <= 1
        /\ result[T1] = "fail" <=> Len(failures[T1]) = 1

\* int and long both mismatch; only int is reported and long is never checked.
C7_Witness ==
    /\ result[T1] = "fail"
    /\ sizeofT["int"] = 2
    /\ sizeofT["long"] = 4
    /\ executed[T1] = <<4, 5>>
    /\ failures[T1] = <<(<<5, 4, 2>>)>>

\* C8: each test case runs once and terminates: its statements are executed in
\* program order, none twice; it ends after its last assertion or at the first
\* assertion that fails; once it has ended nothing of it changes; and a test
\* that has started does end.
C8_RunsOnceAndEnds ==
    /\ [](\A t \in Tests : IsPrefix(executed[t], Stmts[t]))
    /\ [](\A t \in Tests :
            result[t] # "none" =>
                \/ result[t] = "pass" /\ executed[t] = Stmts[t]
                \/ /\ result[t] = "fail"
                   /\ executed[t] # <<>>
                   /\ failures[t] # <<>>
                   /\ failures[t][1][1] = executed[t][Len(executed[t])])
    /\ [][\A t \in Tests :
            result[t] # "none" => TestState(t)' = TestState(t)]_vars
    /\ \A t \in Tests : [](cur = t => <>(result[t] # "none"))

\* TypeSizeAsserts ended at its second assertion, ExplicitCtrTests at its last.
C8_Witness ==
    /\ cur = "none"
    /\ executed[T1] = <<4, 5>>
    /\ result[T1] = "fail"
    /\ executed[T2] = Stmts[T2]

\* C9: the element appended by emplace_back(1,2) has the field values i_ = 1,
\* j_ = 2 of the element appended by push_back(Widget(1,2)), and the element
\* appended by emplace_back(1) has the assigned field i_ = 1 of the one appended
\* by push_back(1).
C9_SameFields ==
    /\ (v_inScope /\ Len(v) >= 2) =>
          /\ v[1].i_ = 1
          /\ v[2].i_ = v[1].i_
          /\ v[2].j_set = v[1].j_set
    /\ (v_inScope /\ Len(v) >= 4) =>
          /\ v[3] = [i_ |-> 1, j_ |-> 2, j_set |-> TRUE]
          /\ v[4] = v[3]

\* All four are stored, and the one-argument elements differ in the unassigned j_.
C9_Witness == At(T2, 25) /\ Len(v) = 4 /\ v[1].j_ # v[2].j_

\* The assigned fields of a stored Widget are those of its copy.
SameAssigned(a, b) ==
    /\ b.i_ = a.i_
    /\ b.j_set = a.j_set
    /\ a.j_set => b.j_ = a.j_

\* C10: every stored Widget has i_ assigned from the first constructor argument
\* (1); j_ is assigned, to 2, exactly in the elements built by the two-argument
\* constructor, which are elements 3 and 4, and is never assigned in elements
\* 1 and 2; an insertion keeps every element already stored, with its assigned
\* fields unchanged.
C10_FieldAssignment ==
    /\ [](v_inScope =>
            \A k \in 1..Len(v) :
                /\ v[k].i_ = 1
                /\ v[k].j_set <=> k \in {3, 4}
                /\ v[k].j_set => v[k].j_ = 2)
    /\ [][(v_inScope /\ v_inScope') =>
            /\ Len(v') >= Len(v)
            /\ \A k \in 1..Len(v) : SameAssigned(v[k], v'[k])]_vars

C10_Witness ==
    /\ At(T2, 25)
    /\ Len(v) = 4
    /\ ~v[1].j_set /\ ~v[2].j_set /\ v[3].j_set /\ v[4].j_set
    /\ v[1].j_ = 2

====
